---------------------------- MODULE Spec2Model ----------------------------
(***************************************************************************)
(* A model of src/src/build-transaction.ts, the Sia transaction builder:   *)
(* coin selection (selectCoins), the blob written for the offline signer   *)
(* (serializeTransactionBlob, hexToBytes), the signature prompt            *)
(* (waitForSignature), the broadcast request (broadcastTransaction) and    *)
(* the flow of main that ties them together.                               *)
(*                                                                         *)
(* JavaScript BigInt values are unbounded, so they are modelled as         *)
(* little-endian sequences of base-256 limbs without trailing zero limbs   *)
(* (0n is <<>>).  Shifts and masks by multiples of 8 bits are then exact   *)
(* operations on limbs, and 2^128 is an ordinary value of 17 limbs.        *)
(* Strings are sequences of one-character strings.                         *)
(***************************************************************************)
EXTENDS Integers, Sequences, FiniteSets, TLC

(***************************************************************************)
(* Numbers written in the source.                                          *)
(***************************************************************************)
\* 0xFFn + 1: the serializer masks every byte with & 0xFFn.
ByteBase == 256
\* for (let i = 0; i < 8; i++): a count, and each half of a value, is 8 bytes.
HalfBytes == 8
\* output.address.substring(0, 64)
AddrHexLen == 64
\* networkData.feePerByte * 1000n
FeeBytes == 1000
\* response.status === 200
StatusOk == 200

(***************************************************************************)
(* Generic sequence helpers.                                               *)
(***************************************************************************)
RECURSIVE Flatten(_)
\* buffer.push(...a); buffer.push(...b); ... : the concatenation of a
\* sequence of sequences, in order (by halves, to keep the evaluation shallow).
Flatten(ss) ==
  IF ss = <<>> THEN <<>>
  ELSE IF Len(ss) = 1 THEN ss[1]
  ELSE LET h == Len(ss) \div 2
       IN  Flatten(SubSeq(ss, 1, h)) \o Flatten(SubSeq(ss, h + 1, Len(ss)))

\* s.slice(from) / the rest of s after its first n elements.
DropFirst(s, n) == IF n >= Len(s) THEN <<>> ELSE SubSeq(s, n + 1, Len(s))

\* s.substring(0, n) / the first n elements of s (all of s if shorter).
TakeFirst(s, n) == IF n >= Len(s) THEN s ELSE SubSeq(s, 1, n)

Repeat(x, n) == [i \in 1..n |-> x]

(***************************************************************************)
(* BigInt arithmetic on limbs.                                             *)
(***************************************************************************)
RECURSIVE BigNorm(_)
BigNorm(a) ==
  IF a = <<>> THEN <<>>
  ELSE IF a[Len(a)] = 0 THEN BigNorm(SubSeq(a, 1, Len(a) - 1))
  ELSE a

RECURSIVE BigOfInt(_)
\* BigInt(n) for a small non-negative number n (an array length).
BigOfInt(n) ==
  IF n = 0 THEN <<>> ELSE <<n % ByteBase>> \o BigOfInt(n \div ByteBase)

RECURSIVE BigAddC(_, _, _)
BigAddC(a, b, c) ==
  IF a = <<>> /\ b = <<>> THEN (IF c = 0 THEN <<>> ELSE <<c>>)
  ELSE LET x == IF a = <<>> THEN 0 ELSE Head(a)
           y == IF b = <<>> THEN 0 ELSE Head(b)
           s == x + y + c
       IN  <<s % ByteBase>>
             \o BigAddC(IF a = <<>> THEN <<>> ELSE Tail(a),
                        IF b = <<>> THEN <<>> ELSE Tail(b),
                        s \div ByteBase)

\* a + b
BigAdd(a, b) == BigNorm(BigAddC(a, b, 0))

RECURSIVE BigCmpTop(_, _, _)
BigCmpTop(a, b, i) ==
  IF i = 0 THEN 0
  ELSE IF a[i] > b[i] THEN 1
  ELSE IF a[i] < b[i] THEN -1
  ELSE BigCmpTop(a, b, i - 1)

\* The sign of a - b: 1, 0 or -1.
BigCmp(a, b) ==
  IF Len(a) > Len(b) THEN 1
  ELSE IF Len(a) < Len(b) THEN -1
  ELSE BigCmpTop(a, b, Len(a))

\* a >= b and a < b as the source writes them.
BigGe(a, b) == BigCmp(a, b) >= 0
BigLt(a, b) == BigCmp(a, b) < 0

RECURSIVE BigSubB(_, _, _)
BigSubB(a, b, w) ==
  IF a = <<>> THEN <<>>
  ELSE LET y == IF b = <<>> THEN 0 ELSE Head(b)
           d == Head(a) - y - w
       IN  <<IF d < 0 THEN d + ByteBase ELSE d>>
             \o BigSubB(Tail(a), IF b = <<>> THEN <<>> ELSE Tail(b),
                        IF d < 0 THEN 1 ELSE 0)

\* a - b, for a >= b (the only subtraction whose value the source uses).
BigSub(a, b) == BigNorm(BigSubB(a, b, 0))

RECURSIVE BigMulAddC(_, _, _)
BigMulAddC(a, m, c) ==
  IF a = <<>> THEN BigOfInt(c)
  ELSE LET p == Head(a) * m + c
       IN  <<p % ByteBase>> \o BigMulAddC(Tail(a), m, p \div ByteBase)

\* a * m + c for small numbers m and c.
BigMulAdd(a, m, c) == BigNorm(BigMulAddC(a, m, c))

RECURSIVE BigDivTop(_, _, _, _)
\* Long division of a by the small number d from the top limb down; r is the
\* running remainder, q the quotient limbs below position i already written.
BigDivTop(a, d, i, r) ==
  IF i = 0 THEN [quot |-> <<>>, rem |-> r]
  ELSE LET cur  == r * ByteBase + a[i]
           rest == BigDivTop(a, d, i - 1, cur % d)
       IN  [quot |-> rest.quot \o <<cur \div d>>, rem |-> rest.rem]

BigDivMod(a, d) ==
  LET r == BigDivTop(a, d, Len(a), 0)
  IN  [quot |-> BigNorm(r.quot), rem |-> r.rem]

(***************************************************************************)
(* Decimal strings: BigInt("123") and (123n).toString().                   *)
(***************************************************************************)
DecChars == <<"0", "1", "2", "3", "4", "5", "6", "7", "8", "9">>

DecVal(c) == (CHOOSE i \in 1..10 : DecChars[i] = c) - 1

RECURSIVE DecChunk(_)
\* The number a short string of decimal digits writes.
DecChunk(str) ==
  IF str = <<>> THEN 0
  ELSE DecChunk(SubSeq(str, 1, Len(str) - 1)) * 10 + DecVal(str[Len(str)])

RECURSIVE BigIntOfString(_)
\* BigInt(str) for a string of decimal digits, read four digits at a time:
\* 10^4 times the value of all but the last four digits, plus those four.
BigIntOfString(str) ==
  IF Len(str) <= 4 THEN BigOfInt(DecChunk(str))
  ELSE BigMulAdd(BigIntOfString(SubSeq(str, 1, Len(str) - 4)), 10000,
                 DecChunk(SubSeq(str, Len(str) - 3, Len(str))))

RECURSIVE BigDigits(_)
BigDigits(a) ==
  IF a = <<>> THEN <<>>
  ELSE LET qr == BigDivMod(a, 10)
       IN  BigDigits(qr.quot) \o <<DecChars[qr.rem + 1]>>

\* a.toString()
BigToString(a) == IF a = <<>> THEN <<"0">> ELSE BigDigits(a)


(***************************************************************************)
(* Hexadecimal strings.                                                    *)
(***************************************************************************)
HexChars == <<"0", "1", "2", "3", "4", "5", "6", "7",
              "8", "9", "a", "b", "c", "d", "e", "f">>

HexUpper == <<"0", "1", "2", "3", "4", "5", "6", "7",
              "8", "9", "A", "B", "C", "D", "E", "F">>

\* The value of one hexadecimal digit, either case, as parseInt(_, 16) reads it.
HexVal(c) ==
  (CHOOSE i \in 1..16 : HexChars[i] = c \/ HexUpper[i] = c) - 1

\* for (i = 0; i < cleanHex.length; i += 2) bytes.push(parseInt(cleanHex.substr(i, 2), 16))
\* One byte per two digits; a trailing single digit is parsed on its own.
ParseHexPairs(hex) ==
  [k \in 1..((Len(hex) + 1) \div 2) |->
     IF 2 * k <= Len(hex)
     THEN HexVal(hex[2 * k - 1]) * 16 + HexVal(hex[2 * k])
     ELSE HexVal(hex[2 * k - 1])]

\* hex.startsWith('0x')
StartsWith0x(hex) == Len(hex) >= 2 /\ hex[1] = "0" /\ hex[2] = "x"

hexToBytes(hex) ==
  LET cleanHex == IF StartsWith0x(hex) THEN DropFirst(hex, 2) ELSE hex
  IN  ParseHexPairs(cleanHex)

\* b.toString(16) for a number 0 <= b < 256.
ToString16(b) ==
  IF b < 16 THEN <<HexChars[b + 1]>>
  ELSE <<HexChars[(b \div 16) + 1], HexChars[(b % 16) + 1]>>

\* s.padStart(2, '0')
PadStart2(s) == IF Len(s) < 2 THEN Repeat("0", 2 - Len(s)) \o s ELSE s

\* buffer.map(b => b.toString(16).padStart(2, '0')).join('')
BytesToHex(buffer) ==
  Flatten([i \in 1..Len(buffer) |-> PadStart2(ToString16(buffer[i]))])

(***************************************************************************)
(* serializeTransactionBlob.                                               *)
(***************************************************************************)
\* Number((x >> BigInt(i * 8)) & 0xFFn): limb i of x, counting from 0.
ByteAt(x, i) == IF i + 1 <= Len(x) THEN x[i + 1] ELSE 0

\* A variant that writes the most significant byte first.
PushBE8(x) == [i \in 1..HalfBytes |-> ByteAt(x, HalfBytes - i)]

\* for (let i = 0; i < 8; i++) buffer.push(Number((x >> BigInt(i * 8)) & 0xFFn))
PushLE8(x) == [i \in 1..HalfBytes |-> ByteAt(x, i - 1)]

\* value & 0xFFFFFFFFFFFFFFFFn
BigLow64(value) == BigNorm(TakeFirst(value, HalfBytes))

\* value >> 64n
BigShr64(value) == DropFirst(value, HalfBytes)

\* The 16 bytes written for a value: its low half, then its high half.
CurrencyBytes(value) ==
  LET lo == BigLow64(value)
      hi == BigShr64(value)
  IN  PushLE8(lo) \o PushLE8(hi)

\* A variant that writes an output's value before its address.
OutputBytes_ValueFirst(output) ==
  LET addrBytes == hexToBytes(TakeFirst(output.address, AddrHexLen))
      value     == BigIntOfString(output.value)
  IN  CurrencyBytes(value) \o addrBytes

\* One output: the address hash (first 64 hex characters), then the value.
OutputBytes(output) ==
  LET addrBytes == hexToBytes(TakeFirst(output.address, AddrHexLen))
      value     == BigIntOfString(output.value)
  IN  addrBytes \o CurrencyBytes(value)

SerializeBuffer(selectedUTXOs, outputs, fee) ==
  LET inputCount  == BigOfInt(Len(selectedUTXOs))
      outputCount == BigOfInt(Len(outputs))
  IN  PushLE8(inputCount)
        \o Flatten([i \in 1..Len(selectedUTXOs) |-> hexToBytes(selectedUTXOs[i].id)])
        \o PushLE8(outputCount)
        \o Flatten([i \in 1..Len(outputs) |-> OutputBytes(outputs[i])])
        \o CurrencyBytes(fee)

serializeTransactionBlob(selectedUTXOs, outputs, fee) ==
  BytesToHex(SerializeBuffer(selectedUTXOs, outputs, fee))

(***************************************************************************)
(* selectCoins.                                                            *)
(***************************************************************************)
\* BigInt(utxo.siacoinOutput.value)
UtxoValue(utxo) == BigIntOfString(utxo.siacoinOutput.value)

\* The comparator given to sort: Number(valueB - valueA).  Number() keeps the
\* sign of a BigInt and maps 0n to 0, and sort reads only the sign.
SortCompare(a, b) == BigCmp(UtxoValue(b), UtxoValue(a))

RECURSIVE InsertSorted(_, _)
\* x goes after every element the comparator does not put behind it, so
\* elements that compare equal keep their order (Array.prototype.sort is stable).
InsertSorted(sorted, x) ==
  IF sorted = <<>> THEN <<x>>
  ELSE IF SortCompare(Head(sorted), x) <= 0
       THEN <<Head(sorted)>> \o InsertSorted(Tail(sorted), x)
  ELSE <<x>> \o sorted

RECURSIVE ArraySort(_)
\* utxos.sort(compare): the array's new content.
ArraySort(arr) ==
  IF arr = <<>> THEN <<>>
  ELSE InsertSorted(ArraySort(SubSeq(arr, 1, Len(arr) - 1)), arr[Len(arr)])

RECURSIVE SelectLoop_AssignsTotal(_, _, _, _, _)
\* A variant with "total = value" where the source has "total += value".
SelectLoop_AssignsTotal(sortedUTXOs, i, selected, total, needed) ==
  IF i > Len(sortedUTXOs) THEN [selected |-> selected, total |-> total]
  ELSE LET selected2 == Append(selected, sortedUTXOs[i])
           total2    == UtxoValue(sortedUTXOs[i])
       IN  IF BigGe(total2, needed)
           THEN [selected |-> selected2, total |-> total2]
           ELSE SelectLoop_AssignsTotal(sortedUTXOs, i + 1, selected2, total2, needed)

RECURSIVE SelectLoop(_, _, _, _, _)
\* for (const utxo of sortedUTXOs) { selected.push(utxo); total += value;
\*                                   if (total >= needed) break }
SelectLoop(sortedUTXOs, i, selected, total, needed) ==
  IF i > Len(sortedUTXOs) THEN [selected |-> selected, total |-> total]
  ELSE LET selected2 == Append(selected, sortedUTXOs[i])
           total2    == BigAdd(total, UtxoValue(sortedUTXOs[i]))
       IN  IF BigGe(total2, needed)
           THEN [selected |-> selected2, total |-> total2]
           ELSE SelectLoop(sortedUTXOs, i + 1, selected2, total2, needed)

\* const change = total - needed
SelectionChange(total, needed) == BigSub(total, needed)

\* A variant without the check "if (total < needed) throw".
selectCoins_NoCheck(utxos, targetAmount, feeAmount) ==
  LET needed      == BigAdd(targetAmount, feeAmount)
      sortedUTXOs == ArraySort(utxos)
      acc         == SelectLoop(sortedUTXOs, 1, <<>>, <<>>, needed)
  IN  [threw |-> FALSE, utxos |-> sortedUTXOs,
       value |-> <<[selected |-> acc.selected,
                    total    |-> acc.total,
                    change   |-> SelectionChange(acc.total, needed)]>>]

\* The call's effect: whether it threw Error('Insufficient funds'); the
\* content of the caller's array afterwards (sort works in place and
\* sortedUTXOs is that same array); and, unless it threw, the value returned.
selectCoins(utxos, targetAmount, feeAmount) ==
  LET needed      == BigAdd(targetAmount, feeAmount)
      sortedUTXOs == ArraySort(utxos)
      acc         == SelectLoop(sortedUTXOs, 1, <<>>, <<>>, needed)
  IN  IF BigLt(acc.total, needed)
      THEN [threw |-> TRUE, utxos |-> sortedUTXOs, value |-> <<>>]
      ELSE [threw |-> FALSE, utxos |-> sortedUTXOs,
            value |-> <<[selected |-> acc.selected,
                         total    |-> acc.total,
                         change   |-> SelectionChange(acc.total, needed)]>>]

(***************************************************************************)
(* waitForSignature.                                                       *)
(***************************************************************************)
IsSpace(c) == c \in {" ", "\t"}

RECURSIVE TrimStart(_)
TrimStart(str) ==
  IF str # <<>> /\ IsSpace(Head(str)) THEN TrimStart(Tail(str)) ELSE str

RECURSIVE TrimEnd(_)
TrimEnd(str) ==
  IF str # <<>> /\ IsSpace(str[Len(str)])
  THEN TrimEnd(SubSeq(str, 1, Len(str) - 1))
  ELSE str

\* answer.trim()
Trim(answer) == TrimEnd(TrimStart(answer))

\* A variant that resolves with the line as entered, untrimmed.
waitForSignature_NoTrim(answer) == answer

\* rl.question('Signature: ', answer => resolve(answer.trim()))
waitForSignature(answer) == Trim(answer)

(***************************************************************************)
(* The environment of one run: process.env and the constant of main.       *)
(***************************************************************************)
\* process.env.OUR_ADDRESS, RECIPIENT_ADDRESS: a 32-byte hash and a 6-byte
\* checksum in hexadecimal; process.env.PUBLIC_KEY.
ourAddress == Repeat("a", 64) \o Repeat("0", 12)
recipientAddress == Repeat("3", 64) \o Repeat("9", 12)
publicKey == Repeat("c", 64)

\* const sendAmount = BigInt('2000000000000000000000000')
sendAmount == BigIntOfString(<<"2">> \o Repeat("0", 24))

(***************************************************************************)
(* The synchronous part of main between the first fetches and the prompt.  *)
(***************************************************************************)
\* utxoData.outputs.filter(utxo => utxo.maturityHeight <= networkData.height)
FilterMature(outputs, height) ==
  SelectSeq(outputs, LAMBDA utxo : utxo.maturityHeight <= height)

\* networkData.feePerByte * 1000n
EstimatedFee(feePerByte) == BigMulAdd(feePerByte, FeeBytes, 0)

\* A variant that forgets the change output: the change would go to the miner.
BuildOutputs_NoChange(selection) ==
  <<[value |-> BigToString(sendAmount), address |-> recipientAddress]>>

\* The recipient output, and the change output if selection.change > 0n.
BuildOutputs(selection) ==
  <<[value |-> BigToString(sendAmount), address |-> recipientAddress]>>
    \o (IF BigCmp(selection.change, <<>>) > 0
        THEN <<[value |-> BigToString(selection.change), address |-> ourAddress]>>
        ELSE <<>>)

\* What main computes from the fetched data up to the signature prompt.  Each
\* of selection, outputs and blob is <<>> while main has not assigned it.
BuildTransaction(outputs, height, feePerByte) ==
  LET mature       == FilterMature(outputs, height)
      estimatedFee == EstimatedFee(feePerByte)
      call         == selectCoins(mature, sendAmount, estimatedFee)
      selection    == call.value[1]
      txOutputs    == BuildOutputs(selection)
  IN  IF Len(mature) = 0
      THEN [end |-> "NoMatureUTXOs", matureUTXOs |-> mature, estimatedFee |-> <<>>,
            selection |-> <<>>, outputs |-> <<>>, blob |-> <<>>]
      ELSE IF call.threw
      THEN [end |-> "InsufficientFunds", matureUTXOs |-> call.utxos,
            estimatedFee |-> <<estimatedFee>>,
            selection |-> <<>>, outputs |-> <<>>, blob |-> <<>>]
      ELSE [end |-> "", matureUTXOs |-> call.utxos,
            estimatedFee |-> <<estimatedFee>>,
            selection |-> call.value, outputs |-> <<txOutputs>>,
            blob |-> <<serializeTransactionBlob(selection.selected, txOutputs,
                                                estimatedFee)>>]

(***************************************************************************)
(* broadcastTransaction: the body posted to /txpool/broadcast.             *)
(***************************************************************************)
SignedInput(utxo, sig) ==
  [parent |-> utxo,
   satisfiedPolicy |->
     [policy |-> [type |-> "uc",
                  policy |-> [timelock |-> 0,
                              publicKeys |-> <<<<"ed25519:">> \o publicKey>>,
                              signaturesRequired |-> 1]],
      signatures |-> <<sig>>,
      preimages |-> <<>>]]

BuildSignedTransaction(selectedUTXOs, txOutputs, fee, sig) ==
  [siacoinInputs  |-> [i \in 1..Len(selectedUTXOs) |-> SignedInput(selectedUTXOs[i], sig)],
   siacoinOutputs |-> txOutputs,
   minerFee       |-> BigToString(fee)]

BroadcastBody(selectedUTXOs, txOutputs, fee, sig, basis) ==
  [basis |-> basis,
   transactions |-> <<>>,
   v2transactions |-> <<BuildSignedTransaction(selectedUTXOs, txOutputs, fee, sig)>>]

(***************************************************************************)
(* Bounds of the model and the inputs drawn within them.                   *)
(***************************************************************************)
\* The most UTXOs the address endpoint returns.
MaxUtxos == 2
\* The most candidates handed to selectCoins on its own.
MaxCandidates == 3
\* The most inputs / outputs handed to the serializer on its own.
MaxInputs == 2
MaxOutputs == 2
\* The chain height the tip endpoint reports.
TipHeight == 10

\* A 32-byte identifier in hexadecimal, different for every position.
UtxoId(i) == Repeat(HexChars[i + 1], 64)

\* Values the address endpoint reports (decimal strings): 1 SC, 1.0005 SC, 3 SC.
UtxoValues ==
  { <<"1">> \o Repeat("0", 24),
    <<"1", "0", "0", "0", "5">> \o Repeat("0", 20),
    <<"3">> \o Repeat("0", 24) }

\* Maturity heights: spendable at the tip, and not yet spendable.
Maturities == {TipHeight, TipHeight + 1}

PoolUtxo(i, v, m) ==
  [id |-> UtxoId(i),
   siacoinOutput |-> [value |-> v, address |-> ourAddress],
   maturityHeight |-> m]

\* Every list of at most max UTXOs with distinct identifiers.
PoolsUpTo(max) ==
  UNION { { [i \in 1..n |-> PoolUtxo(i, f[i][1], f[i][2])] :
            f \in [1..n -> UtxoValues \X Maturities] } : n \in 0..max }

Pools == PoolsUpTo(MaxUtxos)

\* Fee rates the fee endpoint reports (hastings per byte, decimal strings).
FeeRates == { <<"0">>, <<"5">> \o Repeat("0", 17) }

\* Consensus bases the endpoints report.
Bases == {"basis1", "basis2"}

\* Lines the operator may enter at the prompt.
Answers ==
  { <<>>, <<" ", "\t">>, <<"s", "1">>, <<" ", "s", "1", "\t">>, <<"s", " ", "2">> }

(***************************************************************************)
(* State.                                                                  *)
(***************************************************************************)
\* A local of main that is not assigned yet is <<>>, an assigned one <<value>>.
VARIABLES
  pc,             \* where main is: start, fetching, prompt, refetching, broadcasting, done
  utxoData,       \* the address endpoint's first answer
  networkData,    \* height, basis and feePerByte
  matureUTXOs,    \* the filtered array main hands to selectCoins
  estimatedFee,
  selection,      \* what selectCoins returned
  outputs,
  transactionBlob,
  answer,         \* the line the operator entered at the prompt
  signature,
  freshUtxoData,  \* the address endpoint's second answer
  posted,         \* the body posted to the broadcast endpoint
  outcome,        \* how the run ended
  calls,          \* the requests and console interactions so far, in order
  callState,      \* a function called on its own: ready, returned, threw
  callArgs,
  callResult

mainVars ==
  <<pc, utxoData, networkData, matureUTXOs, estimatedFee, selection, outputs,
    transactionBlob, answer, signature, freshUtxoData, posted, outcome, calls>>

callVars == <<callState, callArgs, callResult>>

vars == <<mainVars, callVars>>

MainIdle ==
  /\ utxoData = <<>>
  /\ networkData = <<>>
  /\ matureUTXOs = <<>>
  /\ estimatedFee = <<>>
  /\ selection = <<>>
  /\ outputs = <<>>
  /\ transactionBlob = <<>>
  /\ answer = <<>>
  /\ signature = <<>>
  /\ freshUtxoData = <<>>
  /\ posted = <<>>
  /\ outcome = ""
  /\ calls = <<>>

CallIdle ==
  /\ callState = "unused"
  /\ callArgs = <<>>
  /\ callResult = <<>>

(***************************************************************************)
(* main.                                                                   *)
(***************************************************************************)
Init ==
  /\ pc = "start"
  /\ MainIdle
  /\ CallIdle

\* Promise.all([fetchUTXOs(ourAddress), fetchNetworkData()]): three requests.
Start ==
  /\ pc = "start"
  /\ pc' = "fetching"
  /\ calls' = calls \o <<"GET outputs", "GET tip", "GET fee">>
  /\ UNCHANGED <<utxoData, networkData, matureUTXOs, estimatedFee, selection,
                 outputs, transactionBlob, answer, signature, freshUtxoData, posted,
                 outcome, callVars>>

\* One of the first requests fails: the rejection leaves main and reaches
\* main().catch(console.error).
FetchReject ==
  /\ pc = "fetching"
  /\ pc' = "done"
  /\ outcome' = "FetchError"
  /\ UNCHANGED <<utxoData, networkData, matureUTXOs, estimatedFee, selection,
                 outputs, transactionBlob, answer, signature, freshUtxoData, posted,
                 calls, callVars>>

\* The first requests are answered; main runs on to the prompt, or ends.
FetchResolve ==
  /\ pc = "fetching"
  /\ \E pool \in Pools, rate \in FeeRates :
       LET feePerByte == BigIntOfString(rate)
           b == "basis1"
           r == BuildTransaction(pool, TipHeight, feePerByte)
       IN  /\ utxoData' = <<[outputs |-> pool, basis |-> b]>>
           /\ networkData' = <<[height |-> TipHeight,
                                basis |-> b,
                                feePerByte |-> feePerByte]>>
           /\ matureUTXOs' = <<r.matureUTXOs>>
           /\ estimatedFee' = r.estimatedFee
           /\ selection' = r.selection
           /\ outputs' = r.outputs
           /\ transactionBlob' = r.blob
           /\ outcome' = r.end
           /\ pc' = IF r.end = "" THEN "prompt" ELSE "done"
           /\ calls' = IF r.end = "" THEN calls \o <<"print blob", "prompt">> ELSE calls
  /\ UNCHANGED <<answer, signature, freshUtxoData, posted, callVars>>

\* The operator enters a line.  An empty signature ends the run; any other
\* starts the second fetchUTXOs.
SignatureEntered ==
  /\ pc = "prompt"
  /\ \E line \in Answers :
       LET sig == waitForSignature(line)
       IN  /\ answer' = <<line>>
           /\ signature' = <<sig>>
           /\ IF sig = <<>>
              THEN /\ pc' = "done"
                   /\ outcome' = "NoSignature"
                   /\ calls' = calls
              ELSE /\ pc' = "refetching"
                   /\ outcome' = outcome
                   /\ calls' = calls \o <<"GET outputs">>
  /\ UNCHANGED <<utxoData, networkData, matureUTXOs, estimatedFee, selection,
                 outputs, transactionBlob, freshUtxoData, posted, callVars>>

\* The second fetchUTXOs fails, outside the try block.
RefetchReject ==
  /\ pc = "refetching"
  /\ pc' = "done"
  /\ outcome' = "FetchError"
  /\ UNCHANGED <<utxoData, networkData, matureUTXOs, estimatedFee, selection,
                 outputs, transactionBlob, answer, signature, freshUtxoData, posted,
                 calls, callVars>>

\* A variant that posts the basis of the first fetch, not of the second.
RefetchResolve_StaleBasis ==
  /\ pc = "refetching"
  /\ \E fresh \in {<<>>, utxoData[1].outputs}, b \in Bases :
       /\ freshUtxoData' = <<[outputs |-> fresh, basis |-> b]>>
       /\ posted' = <<BroadcastBody(selection[1].selected, outputs[1],
                                    estimatedFee[1], signature[1],
                                    networkData[1].basis)>>
  /\ pc' = "broadcasting"
  /\ calls' = calls \o <<"POST broadcast">>
  /\ UNCHANGED <<utxoData, networkData, matureUTXOs, estimatedFee, selection,
                 outputs, transactionBlob, answer, signature, outcome, callVars>>

\* The second fetchUTXOs is answered, with any pool and basis;
\* broadcastTransaction builds the transaction and posts it.
RefetchResolve ==
  /\ pc = "refetching"
  /\ \E fresh \in {<<>>, utxoData[1].outputs}, b \in Bases :
       /\ freshUtxoData' = <<[outputs |-> fresh, basis |-> b]>>
       /\ posted' = <<BroadcastBody(selection[1].selected, outputs[1],
                                    estimatedFee[1], signature[1], b)>>
  /\ pc' = "broadcasting"
  /\ calls' = calls \o <<"POST broadcast">>
  /\ UNCHANGED <<utxoData, networkData, matureUTXOs, estimatedFee, selection,
                 outputs, transactionBlob, answer, signature, outcome, callVars>>

\* The broadcast endpoint answers with a 2xx status.
BroadcastResponse ==
  /\ pc = "broadcasting"
  /\ \E status \in {StatusOk, StatusOk + 1} :
       outcome' = IF status = StatusOk THEN "BroadcastOk" ELSE "BroadcastFailed"
  /\ pc' = "done"
  /\ UNCHANGED <<utxoData, networkData, matureUTXOs, estimatedFee, selection,
                 outputs, transactionBlob, answer, signature, freshUtxoData, posted,
                 calls, callVars>>

\* The post fails (any other status, or no answer): caught and logged.
BroadcastReject ==
  /\ pc = "broadcasting"
  /\ pc' = "done"
  /\ outcome' = "BroadcastError"
  /\ UNCHANGED <<utxoData, networkData, matureUTXOs, estimatedFee, selection,
                 outputs, transactionBlob, answer, signature, freshUtxoData, posted,
                 calls, callVars>>

Next ==
  \/ Start
  \/ FetchReject
  \/ FetchResolve
  \/ SignatureEntered
  \/ RefetchReject
  \/ RefetchResolve
  \/ BroadcastResponse
  \/ BroadcastReject

Spec == Init /\ [][Next]_vars

(***************************************************************************)
(* selectCoins called on its own, as main calls it (on the pool filtered   *)
(* by maturity) but with any target and fee.                               *)
(***************************************************************************)
SeqsUpTo(S, n) == UNION { [1..k -> S] : k \in 0..n }

\* 5 * 10^20 hastings
Fee5e20 == BigIntOfString(<<"5">> \o Repeat("0", 20))

SelectTargets == { <<>>, sendAmount }
SelectFees == { <<>>, Fee5e20 }

InitSelect ==
  /\ pc = "unused"
  /\ MainIdle
  /\ callState = "ready"
  /\ callResult = <<>>
  /\ \E pool \in PoolsUpTo(MaxCandidates), t \in SelectTargets, f \in SelectFees :
       callArgs = <<[pool |-> pool,
                     height |-> TipHeight,
                     utxos |-> FilterMature(pool, TipHeight),
                     targetAmount |-> t,
                     feeAmount |-> f]>>

CallSelectCoins ==
  /\ callState = "ready"
  /\ LET a == callArgs[1]
         r == selectCoins(a.utxos, a.targetAmount, a.feeAmount)
     IN  /\ callResult' = <<r>>
         /\ callState' = IF r.threw THEN "threw" ELSE "returned"
  /\ UNCHANGED <<callArgs, mainVars>>

NextSelect == CallSelectCoins

SpecSelect == InitSelect /\ [][NextSelect]_vars

(***************************************************************************)
(* serializeTransactionBlob called on its own.                             *)
(***************************************************************************)
\* 32 bytes of 0x11, and 32 bytes of 0xAB written with a 0x prefix and
\* letters of both cases.
Id11 == Repeat("1", 64)
IdAB == <<"0", "x">> \o Flatten(Repeat(<<"A", "b">>, 32))

SerializeInputs ==
  { [id |-> h,
     siacoinOutput |-> [value |-> <<"1">> \o Repeat("0", 24), address |-> ourAddress],
     maturityHeight |-> TipHeight] : h \in {Id11, IdAB} }

\* 2^64 - 1, 2^64, 2^128 - 1, 2^128 and 2^128 + 1
Max64 == Repeat(ByteBase - 1, HalfBytes)
Pow64 == Repeat(0, HalfBytes) \o <<1>>
Max128 == Repeat(ByteBase - 1, 2 * HalfBytes)
Pow128 == Repeat(0, 2 * HalfBytes) \o <<1>>
Pow128Plus1 == <<1>> \o Repeat(0, 2 * HalfBytes - 1) \o <<1>>

SerializeOutputs ==
  { [value |-> BigToString(v), address |-> recipientAddress] :
      v \in {sendAmount, Pow64, Pow128Plus1} }
    \cup { [value |-> BigToString(Max128), address |-> ourAddress] }

SerializeFees == { <<>>, Fee5e20, Max64, Max128, Pow128 }

InitSerialize ==
  /\ pc = "unused"
  /\ MainIdle
  /\ callState = "ready"
  /\ callResult = <<>>
  /\ \E ins \in SeqsUpTo(SerializeInputs, MaxInputs),
        outs \in SeqsUpTo(SerializeOutputs, MaxOutputs),
        f \in SerializeFees :
       callArgs = <<[selectedUTXOs |-> ins, outputs |-> outs, fee |-> f]>>

\* The function has no throw statement: every call returns a blob.
CallSerialize ==
  /\ callState = "ready"
  /\ LET a == callArgs[1]
     IN  callResult' =
           <<[blob |-> serializeTransactionBlob(a.selectedUTXOs, a.outputs, a.fee)]>>
  /\ callState' = "returned"
  /\ UNCHANGED <<callArgs, mainVars>>

NextSerialize == CallSerialize

SpecSerialize == InitSerialize /\ [][NextSerialize]_vars

(***************************************************************************)
(* Vocabulary of the properties.                                           *)
(***************************************************************************)
RECURSIVE SumBig(_)
\* The sum of a sequence of BigInt values.
SumBig(values) ==
  IF values = <<>> THEN <<>> ELSE BigAdd(Head(values), SumBig(Tail(values)))

\* The summed value of a sequence of UTXOs / of transaction outputs.
SumUtxos(utxos) == SumBig([i \in 1..Len(utxos) |-> UtxoValue(utxos[i])])
SumOutputs(outs) == SumBig([i \in 1..Len(outs) |-> BigIntOfString(outs[i].value)])

\* The UTXOs of a pool that are spendable at a height, as a set and in order.
MatureSet(pool, height) ==
  { pool[i] : i \in { j \in 1..Len(pool) : pool[j].maturityHeight <= height } }

RECURSIVE MatureTotal(_, _)
MatureTotal(pool, height) ==
  IF pool = <<>> THEN <<>>
  ELSE BigAdd(IF Head(pool).maturityHeight <= height
              THEN UtxoValue(Head(pool)) ELSE <<>>,
              MatureTotal(Tail(pool), height))

\* How often an interaction occurs in the log, and where it first occurs.
Count(log, what) == Cardinality({ i \in 1..Len(log) : log[i] = what })
Positions(log, what) == { i \in 1..Len(log) : log[i] = what }

\* The transaction of a posted body.
PostedTx == posted[1].v2transactions[1]
PostedParents == [i \in 1..Len(PostedTx.siacoinInputs) |-> PostedTx.siacoinInputs[i].parent]

(***************************************************************************)
(* C1  Value conservation.  Once main has serialized the blob, the values  *)
(* of the selected inputs add up to exactly the values of the outputs (the *)
(* recipient output, plus the change output when there is one) plus the    *)
(* fee, with change = total - (target + fee); and the transaction posted   *)
(* for broadcast satisfies the same equality.                              *)
(***************************************************************************)
C1_ValueConservation ==
  /\ transactionBlob # <<>> =>
       LET sel == selection[1]
           fee == estimatedFee[1]
       IN  /\ SumUtxos(sel.selected) = BigAdd(SumOutputs(outputs[1]), fee)
           /\ sel.total = SumUtxos(sel.selected)
           /\ BigAdd(sel.change, BigAdd(sendAmount, fee)) = sel.total
           /\ BigIntOfString(outputs[1][1].value) = sendAmount
           /\ Len(outputs[1]) = IF sel.change = <<>> THEN 1 ELSE 2
           /\ Len(outputs[1]) = 2 => BigIntOfString(outputs[1][2].value) = sel.change
  /\ posted # <<>> =>
       SumUtxos(PostedParents)
         = BigAdd(SumOutputs(PostedTx.siacoinOutputs), BigIntOfString(PostedTx.minerFee))

\* A broadcast of two inputs, a recipient output and a change output.
C1_Witness ==
  /\ posted # <<>>
  /\ Len(PostedTx.siacoinInputs) = 2
  /\ Len(PostedTx.siacoinOutputs) = 2
  /\ estimatedFee[1] # <<>>

(***************************************************************************)
(* C3  Insufficient funds, as claimed: whenever the mature candidates add  *)
(* up to less than target + fee, also when there is none, the run ends in  *)
(* the insufficient-funds failure, with no selection result, no blob, no   *)
(* prompt and no broadcast.                                                *)
(***************************************************************************)
NeededInMain == BigAdd(sendAmount, BigMulAdd(networkData[1].feePerByte, FeeBytes, 0))

FundsShort ==
  /\ utxoData # <<>>
  /\ BigLt(MatureTotal(utxoData[1].outputs, networkData[1].height), NeededInMain)

NothingEmitted ==
  /\ pc = "done"
  /\ selection = <<>>
  /\ transactionBlob = <<>>
  /\ posted = <<>>
  /\ Count(calls, "print blob") = 0
  /\ Count(calls, "prompt") = 0
  /\ Count(calls, "POST broadcast") = 0

C3_AlwaysInsufficientFunds ==
  FundsShort => (outcome = "InsufficientFunds" /\ NothingEmitted)

(***************************************************************************)
(* C3 amended.  Whenever the mature candidates add up to less than target  *)
(* + fee, nothing is emitted (no selection result, no blob, no prompt, no  *)
(* broadcast); the run ends in the insufficient-funds failure if there is  *)
(* at least one mature candidate, and with the message that no mature UTXO *)
(* is available, without an error, if there is none.                       *)
(***************************************************************************)
C3_InsufficientFunds ==
  FundsShort =>
    /\ NothingEmitted
    /\ outcome = IF MatureSet(utxoData[1].outputs, networkData[1].height) = {}
                 THEN "NoMatureUTXOs" ELSE "InsufficientFunds"

\* Two mature UTXOs that do not cover target + fee, next to no immature one.
C3_Witness ==
  /\ FundsShort
  /\ Len(matureUTXOs[1]) = 2
  /\ outcome = "InsufficientFunds"

(***************************************************************************)
(* C6  Cancellation.  When the line entered at the prompt is empty or only *)
(* whitespace, the run ends with the no-signature outcome, which no other  *)
(* end of a run shares; after it there is no second fetch, no transaction  *)
(* and no broadcast; and no posted transaction carries an empty signature. *)
(***************************************************************************)
Blank(line) == \A i \in 1..Len(line) : line[i] \in {" ", "\t"}

C6_Cancellation ==
  /\ (answer # <<>> /\ Blank(answer[1])) =>
       /\ pc = "done"
       /\ outcome = "NoSignature"
       /\ freshUtxoData = <<>>
       /\ posted = <<>>
       /\ Count(calls, "GET outputs") = 1
       /\ Count(calls, "POST broadcast") = 0
  /\ outcome = "NoSignature" => (answer # <<>> /\ Blank(answer[1]))
  /\ posted # <<>> =>
       \A i \in 1..Len(PostedTx.siacoinInputs) :
         \A k \in 1..Len(PostedTx.siacoinInputs[i].satisfiedPolicy.signatures) :
           PostedTx.siacoinInputs[i].satisfiedPolicy.signatures[k] # <<>>

\* A line of whitespace was entered and the run is over.
C6_Witness ==
  /\ answer = << <<" ", "\t">> >>
  /\ outcome = "NoSignature"
  /\ transactionBlob # <<>>

(***************************************************************************)
(* C10  What is signed is what is broadcast.  A broadcast request is made  *)
(* only after a non-empty signature and after a second fetch of the UTXOs  *)
(* that followed the prompt; there is one request per run, before and      *)
(* after its answer; it carries one transaction, whose inputs (in order),  *)
(* outputs and fee are those serialized into the blob that was shown; and  *)
(* its basis is the one the second fetch returned.                         *)
(***************************************************************************)
C10_SignedIsBroadcast ==
  /\ Count(calls, "POST broadcast") = Len(posted)
  /\ posted # <<>> =>
       /\ signature # <<>> /\ signature[1] # <<>>
       /\ \E p \in Positions(calls, "prompt"), g \in Positions(calls, "GET outputs"),
             b \in Positions(calls, "POST broadcast") : p < g /\ g < b
       /\ Count(calls, "print blob") = 1
       /\ posted[1].transactions = <<>>
       /\ Len(posted[1].v2transactions) = 1
       /\ PostedParents = selection[1].selected
       /\ PostedTx.siacoinOutputs = outputs[1]
       /\ BigIntOfString(PostedTx.minerFee) = estimatedFee[1]
       /\ transactionBlob[1]
            = serializeTransactionBlob(PostedParents, PostedTx.siacoinOutputs,
                                       BigIntOfString(PostedTx.minerFee))
       /\ \A i \in 1..Len(PostedTx.siacoinInputs) :
            PostedTx.siacoinInputs[i].satisfiedPolicy.signatures = <<signature[1]>>
       /\ posted[1].basis = freshUtxoData[1].basis
  /\ outcome \in {"BroadcastFailed", "BroadcastError"} =>
       (pc = "done" /\ Len(posted) = 1)

\* A failed broadcast after a second fetch that returned no UTXO at all and
\* another basis than the first.
C10_Witness ==
  /\ outcome = "BroadcastError"
  /\ freshUtxoData[1].outputs = <<>>
  /\ freshUtxoData[1].basis # utxoData[1].basis
  /\ Len(selection[1].selected) = 2

(***************************************************************************)
(* Vocabulary of the properties of selectCoins called on its own.          *)
(***************************************************************************)
SelectArgs == callArgs[1]
SelectNeeded == BigAdd(SelectArgs.targetAmount, SelectArgs.feeAmount)
Selected == callResult[1].value[1].selected

\* The candidates by value descending, equal values in their original order:
\* first the first candidate of the greatest value, then the rest likewise.
RECURSIVE StableDescending(_)
StableDescending(cands) ==
  IF cands = <<>> THEN <<>>
  ELSE LET k == CHOOSE k \in 1..Len(cands) :
                  /\ \A j \in 1..Len(cands) : BigGe(UtxoValue(cands[k]), UtxoValue(cands[j]))
                  /\ \A j \in 1..(k - 1) : BigLt(UtxoValue(cands[j]), UtxoValue(cands[k]))
       IN  <<cands[k]>>
             \o StableDescending(SubSeq(cands, 1, k - 1) \o SubSeq(cands, k + 1, Len(cands)))

\* The shortest prefix of a list whose values add up to at least needed.
ShortestPrefix(list, needed) ==
  LET k == CHOOSE k \in 0..Len(list) :
             /\ BigGe(SumUtxos(SubSeq(list, 1, k)), needed)
             /\ \A j \in 0..(k - 1) : BigLt(SumUtxos(SubSeq(list, 1, j)), needed)
  IN  SubSeq(list, 1, k)

(***************************************************************************)
(* C2  Coin selection success.  When the UTXOs that are mature at the      *)
(* height add up to at least target + fee, selectCoins returns; the total  *)
(* it returns is at least target + fee and is the sum of the selected      *)
(* UTXOs; every selected UTXO is a mature one of the pool; and none is     *)
(* selected twice.                                                         *)
(***************************************************************************)
C2_SelectionSucceeds ==
  (/\ callState # "ready"
   /\ BigGe(MatureTotal(SelectArgs.pool, SelectArgs.height), SelectNeeded)) =>
    /\ callState = "returned"
    /\ BigGe(callResult[1].value[1].total, SelectNeeded)
    /\ callResult[1].value[1].total = SumUtxos(Selected)
    /\ \A i \in 1..Len(Selected) :
         Selected[i] \in MatureSet(SelectArgs.pool, SelectArgs.height)
    /\ \A i, j \in 1..Len(Selected) : i # j => Selected[i] # Selected[j]

\* Two or more UTXOs selected from a pool that also holds an immature one.
C2_Witness ==
  /\ callState = "returned"
  /\ Len(Selected) >= 2
  /\ Len(SelectArgs.utxos) < Len(SelectArgs.pool)
  /\ SelectArgs.feeAmount # <<>>

(***************************************************************************)
(* C5  selectCoins has no side effect the caller can observe: after the    *)
(* call, whether it returned or threw, the array passed in holds the same  *)
(* UTXOs in the same order as before.                                      *)
(***************************************************************************)
C5_InputUntouched ==
  callState # "ready" => callResult[1].utxos = SelectArgs.utxos

(***************************************************************************)
(* C9  Greedy stable-descending selection.  When selection succeeds, also  *)
(* for target + fee = 0, the selected sequence is the shortest prefix of   *)
(* the candidates sorted by value descending (equal values in original     *)
(* order) whose sum is at least target + fee; for target + fee = 0 that is *)
(* the empty sequence.                                                     *)
(***************************************************************************)
C9_GreedyPrefix ==
  callState = "returned" =>
    Selected = ShortestPrefix(StableDescending(SelectArgs.utxos), SelectNeeded)

(***************************************************************************)
(* Vocabulary of the properties of serializeTransactionBlob on its own.    *)
(***************************************************************************)
SerArgs == callArgs[1]
Blob == callResult[1].blob

InRange128(v) == BigCmp(v, Max128) <= 0

SerAllInRange ==
  /\ InRange128(SerArgs.fee)
  /\ \A j \in 1..Len(SerArgs.outputs) :
       InRange128(BigIntOfString(SerArgs.outputs[j].value))

LowerHex == { HexChars[i] : i \in 1..16 }
LowerHexVal(c) == (CHOOSE i \in 1..16 : HexChars[i] = c) - 1

\* The bytes a string of lowercase hexadecimal digits writes.
BlobBytes(blob) ==
  [k \in 1..(Len(blob) \div 2) |->
     16 * LowerHexVal(blob[2 * k - 1]) + LowerHexVal(blob[2 * k])]

RECURSIVE LittleEndian(_)
\* The number whose little-endian bytes are given: b1 + 256 * (b2 + 256 * ...).
LittleEndian(bytes) ==
  IF bytes = <<>> THEN <<>>
  ELSE BigMulAdd(LittleEndian(Tail(bytes)), 256, Head(bytes))

\* decode: the low half plus 2^64 times the high half.
Decode16(bytes) ==
  BigAdd(LittleEndian(SubSeq(bytes, 1, 8)),
         LittleEndian(<<0, 0, 0, 0, 0, 0, 0, 0>> \o SubSeq(bytes, 9, 16)))

\* The 32 bytes of the identifiers and addresses the inputs are drawn from.
IdBytes(id) == IF id = Id11 THEN Repeat(17, 32) ELSE Repeat(171, 32)
AddressBytes(addr) == IF addr = recipientAddress THEN Repeat(51, 32) ELSE Repeat(170, 32)

\* Where output j starts in a blob of n inputs (counting bytes from 0).
OutputOffset(n, j) == 8 + 32 * n + 8 + 48 * (j - 1)

(***************************************************************************)
(* C4  Range rejection.  A call with an output value or a fee above        *)
(* 2^128 - 1 fails with a RangeError and yields no blob.                   *)
(***************************************************************************)
C4_RangeRejection ==
  (callState # "ready" /\ ~SerAllInRange) => callState = "threw"

C8_CurrencyRoundTrip ==
  callState = "returned" =>
    LET n     == Len(SerArgs.selectedUTXOs)
        m     == Len(SerArgs.outputs)
        bytes == BlobBytes(Blob)
        part(from, len) == SubSeq(bytes, from + 1, from + len)
    IN  /\ InRange128(SerArgs.fee) =>
             Decode16(part(OutputOffset(n, m + 1), 16)) = SerArgs.fee
        /\ \A j \in 1..m :
             InRange128(BigIntOfString(SerArgs.outputs[j].value)) =>
               Decode16(part(OutputOffset(n, j) + 32, 16))
                 = BigIntOfString(SerArgs.outputs[j].value)

\* The greatest value as the fee, next to an output of 2^64 (low half zero).
C8_Witness ==
  /\ callState = "returned"
  /\ SerArgs.fee = Max128
  /\ \E j \in 1..Len(SerArgs.outputs) : SerArgs.outputs[j].value = BigToString(Pow64)

=============================================================================
